---- MODULE Spec2Model ----
(***************************************************************************)
(* Model of dso-log-scrubber (src/main.py): the line-scrubbing engine      *)
(* LogScrubber._scrub_line, the file run LogScrubber.scrub_log and the     *)
(* command-line entry main.                                                *)
(*                                                                         *)
(* Text is a sequence of one-character strings.  Patterns are taken from   *)
(* the sub-language of Python regular expressions made of literal          *)
(* characters, the wildcard "." and the opening parenthesis "(" (which,    *)
(* never closed, makes the pattern fail to compile with re.error).         *)
(* Replacement strings go through re.sub's template processing, as in the  *)
(* code: backslash escapes and group references are interpreted.           *)
(***************************************************************************)
EXTENDS Integers, Sequences, FiniteSets, TLC

VARIABLES pc, entry, args, installed, sys_modules, fs, orig, lines, i, log, line, result

vars == <<pc, entry, args, installed, sys_modules, fs, orig, lines, i, log, line, result>>

(* ----------------------------- bounds ---------------------------------- *)

\* longest body (without terminator) of a line handed to _scrub_line directly
MaxLineLen == 2
\* longest rules list handed to _scrub_line directly
MaxRules == 2
\* most lines in an input file of a run
MaxLines == 2
\* longest rules list of a run
MaxRunRules == 2

(* ---------------------------- characters ------------------------------- *)

NL == "\n"
BS == "\\"
Digits == {"0", "1", "2", "3", "4", "5", "6", "7", "8", "9"}
AsciiLetters == {"a", "b", "f", "g", "n", "q", "r", "t", "v", "x", "X"}

\* sre_parse.ESCAPES restricted to the template escapes of one letter
EscapeLetters == {"a", "b", "f", "n", "r", "t", "v"}
EscapeChar(c) ==
    CASE c = "a" -> "<BEL>"
      [] c = "b" -> "<BS>"
      [] c = "f" -> "<FF>"
      [] c = "n" -> NL
      [] c = "r" -> "<CR>"
      [] c = "t" -> "<TAB>"
      [] c = "v" -> "<VT>"

(* ------------------------ replace_with values -------------------------- *)

None == [none |-> TRUE, s |-> <<>>]
Str(s) == [none |-> FALSE, s |-> s]

fake_name == Str(<<"f","a","k","e","_","n","a","m","e">>)
fake_email == Str(<<"f","a","k","e","_","e","m","a","i","l">>)
fake_address == Str(<<"f","a","k","e","_","a","d","d","r","e","s","s">>)
fake_phone_number ==
    Str(<<"f","a","k","e","_","p","h","o","n","e","_","n","u","m","b","e","r">>)
fake_credit_card_number ==
    Str(<<"f","a","k","e","_","c","r","e","d","i","t","_","c","a","r","d",
          "_","n","u","m","b","e","r">>)

FakeKeywords ==
    {fake_name, fake_email, fake_address, fake_phone_number, fake_credit_card_number}

\* Faker: the values self.fake.<category>() may return (two per category);
\* an address holds a line break between street and city
FakerValues(keyword) ==
    CASE keyword = fake_name -> {<<"J">>, <<"K">>}
      [] keyword = fake_email -> {<<"j", "@", "x">>, <<"k", "@", "x">>}
      [] keyword = fake_address -> {<<"S", NL, "C">>, <<"T", NL, "C">>}
      [] keyword = fake_phone_number -> {<<"5", "5">>, <<"5", "6">>}
      [] keyword = fake_credit_card_number -> {<<"4", "1">>, <<"4", "2">>}

(* ------------------- re.sub: pattern and template ---------------------- *)

\* re.compile(pattern) raises re.error: an unclosed "("
PatternError(pattern) == \E k \in 1..Len(pattern) : pattern[k] = "("

\* the compiled pattern matches string at position pos ("." is any character
\* but the line break)
MatchesAt(pattern, string, pos) ==
    /\ pos + Len(pattern) - 1 <= Len(string)
    /\ \A k \in 1..Len(pattern) :
          IF pattern[k] = "." THEN string[pos + k - 1] # NL
                              ELSE string[pos + k - 1] = pattern[k]

Lit(c) == [group |-> FALSE, ch |-> c]
Group0 == [group |-> TRUE, ch |-> ""]
Parsed(parts) == [exc |-> "none", parts |-> parts]
Raise(e) == [exc |-> e, parts |-> <<>>]

\* position of the first ">" at or after position k of t, 0 when there is none
RECURSIVE FindClose(_, _)
FindClose(t, k) ==
    IF k > Len(t) THEN 0 ELSE IF t[k] = ">" THEN k ELSE FindClose(t, k + 1)

\* str.isidentifier on a group name
IsIdentifier(name) ==
    /\ name # <<>>
    /\ name[1] \notin Digits
    /\ \A k \in 1..Len(name) : name[k] \in AsciiLetters \cup Digits \cup {"_"}

\* sre_parse.parse_template for a pattern without groups: the template's
\* literal characters and references to group 0 (the whole match), or the
\* exception it raises.  A digit escape is taken to be followed by no
\* further digit.
RECURSIVE parse_template(_, _)
parse_template(t, k) ==
    IF k > Len(t) THEN Parsed(<<>>)
    ELSE IF t[k] # BS THEN
        LET rest == parse_template(t, k + 1) IN
        IF rest.exc # "none" THEN rest ELSE Parsed(<<Lit(t[k])>> \o rest.parts)
    ELSE IF k = Len(t) THEN Raise("re.error")        \* bad escape (end of pattern)
    ELSE LET c == t[k + 1] IN
        IF c = "g" THEN
            IF k + 2 > Len(t) \/ t[k + 2] # "<" THEN Raise("re.error")   \* missing <
            ELSE LET close == FindClose(t, k + 3)
                     name == SubSeq(t, k + 3, close - 1) IN
                IF close = 0 \/ name = <<>> THEN Raise("re.error")       \* missing >, missing group name
                ELSE IF IsIdentifier(name) THEN Raise("IndexError")      \* unknown group name
                ELSE IF \E j \in 1..Len(name) : name[j] \notin Digits
                    THEN Raise("re.error")                               \* bad character in group name
                ELSE IF \E j \in 1..Len(name) : name[j] # "0"
                    THEN Raise("re.error")                               \* invalid group reference
                ELSE LET rest == parse_template(t, close + 1) IN
                    IF rest.exc # "none" THEN rest
                    ELSE Parsed(<<Group0>> \o rest.parts)
        ELSE IF c = "0" THEN
            LET rest == parse_template(t, k + 2) IN
            IF rest.exc # "none" THEN rest ELSE Parsed(<<Lit("<NUL>")>> \o rest.parts)
        ELSE IF c \in Digits THEN Raise("re.error")                      \* invalid group reference
        ELSE IF c \in EscapeLetters \/ c = BS THEN
            LET rest == parse_template(t, k + 2) IN
            IF rest.exc # "none" THEN rest
            ELSE Parsed(<<Lit(IF c = BS THEN BS ELSE EscapeChar(c))>> \o rest.parts)
        ELSE IF c \in AsciiLetters THEN Raise("re.error")                \* bad escape
        ELSE LET rest == parse_template(t, k + 2) IN
            IF rest.exc # "none" THEN rest
            ELSE Parsed(<<Lit(BS), Lit(c)>> \o rest.parts)

\* the template of a replacement string: used as it is when it holds no
\* backslash, parsed otherwise
Template(repl) ==
    IF \E k \in 1..Len(repl) : repl[k] = BS
    THEN parse_template(repl, 1)
    ELSE Parsed([k \in 1..Len(repl) |-> Lit(repl[k])])

\* the text a parsed template stands for at one match
RECURSIVE Expand(_, _)
Expand(parts, match) ==
    IF parts = <<>> THEN <<>>
    ELSE (IF parts[1].group THEN match ELSE <<parts[1].ch>>) \o Expand(Tail(parts), match)

\* the scan of re.sub: every non-overlapping match, leftmost first, is
\* replaced; an empty match is replaced and the scan moves on one character
RECURSIVE SubFrom(_, _, _, _)
SubFrom(pattern, parts, string, pos) ==
    IF pos > Len(string) THEN
        (IF pattern = <<>> THEN Expand(parts, <<>>) ELSE <<>>)
    ELSE IF MatchesAt(pattern, string, pos) THEN
        IF pattern = <<>>
        THEN Expand(parts, <<>>) \o <<string[pos]>> \o SubFrom(pattern, parts, string, pos + 1)
        ELSE Expand(parts, SubSeq(string, pos, pos + Len(pattern) - 1))
                 \o SubFrom(pattern, parts, string, pos + Len(pattern))
    ELSE <<string[pos]>> \o SubFrom(pattern, parts, string, pos + 1)

\* re.sub(pattern, repl, string): the pattern is compiled first, then the
\* template, both before any match is looked for
re_sub(pattern, repl, string) ==
    IF PatternError(pattern) THEN [exc |-> "re.error", out |-> <<>>]
    ELSE LET tpl == Template(repl) IN
        IF tpl.exc # "none" THEN [exc |-> tpl.exc, out |-> <<>>]
        ELSE [exc |-> "none", out |-> SubFrom(pattern, tpl.parts, string, 1)]

\* the number of non-overlapping matches re.sub replaces in string
RECURSIVE CountMatches(_, _, _)
CountMatches(pattern, string, pos) ==
    IF pos > Len(string) THEN (IF pattern = <<>> THEN 1 ELSE 0)
    ELSE IF MatchesAt(pattern, string, pos)
        THEN 1 + CountMatches(pattern, string,
                              pos + (IF pattern = <<>> THEN 1 ELSE Len(pattern)))
    ELSE CountMatches(pattern, string, pos + 1)

(* --------------------------- _scrub_line ------------------------------- *)

IsSynthetic(replace_with) == replace_with \in FakeKeywords

\* the replacement argument of the k-th re.sub call: '' for deletion, the
\* value the generator returned for this call, or replace_with itself
Replacement(replace_with, fakes, k) ==
    IF replace_with.none THEN <<>>
    ELSE IF IsSynthetic(replace_with) THEN fakes[k]
    ELSE replace_with.s

\* what a call of _scrub_line leaves: the exception it lets through ("none"
\* when it returns), the line returned, the errors logged and the number of
\* calls made to the generator
Outcome(exc, out, logged, calls) ==
    [called |-> TRUE, exc |-> exc, out |-> out, logged |-> logged, gen_calls |-> calls]

NoCall == [called |-> FALSE, exc |-> "none", out |-> <<>>, logged |-> <<>>, gen_calls |-> 0]

\* a slip: every rule is matched against the line as it was passed in
RuleInput_OriginalLine(ln, sanitized) == ln

\* the string a rule is matched against: the third argument of re.sub
RuleInput(ln, sanitized) == sanitized

\* the loop of _scrub_line from rule k on, sanitized being sanitized_line
RECURSIVE ScrubFrom(_, _, _, _, _, _)
ScrubFrom(ln, patterns, replace_with, fakes, k, sanitized) ==
    LET calls(n) == IF IsSynthetic(replace_with) THEN n ELSE 0 IN
    IF k > Len(patterns) THEN Outcome("none", sanitized, <<>>, calls(k - 1))
    ELSE LET r == re_sub(patterns[k], Replacement(replace_with, fakes, k),
                           RuleInput(ln, sanitized)) IN
        IF r.exc = "re.error"
        THEN Outcome("none", ln, <<"Invalid regular expression">>, calls(k))
        ELSE IF r.exc # "none" THEN Outcome(r.exc, <<>>, <<>>, calls(k))
        ELSE ScrubFrom(ln, patterns, replace_with, fakes, k + 1, r.out)

_scrub_line(ln, patterns, replace_with, fakes) ==
    ScrubFrom(ln, patterns, replace_with, fakes, 1, ln)

\* the values the generator may return over the calls of one _scrub_line
FakeRuns(patterns, replace_with) ==
    IF IsSynthetic(replace_with)
    THEN [1..Len(patterns) -> FakerValues(replace_with)]
    ELSE {<<>>}

(* ------------------------------ files ---------------------------------- *)

Paths == {"input.log", "output.log"}
Absent == [exists |-> FALSE, data |-> <<>>]
File(data) == [exists |-> TRUE, data |-> data]

\* file.readlines(): the text cut after every line break
RECURSIVE readlines(_, _)
readlines(data, cur) ==
    IF data = <<>> THEN (IF cur = <<>> THEN <<>> ELSE <<cur>>)
    ELSE IF Head(data) = NL THEN <<Append(cur, NL)>> \o readlines(Tail(data), <<>>)
    ELSE readlines(Tail(data), Append(cur, Head(data)))

RECURSIVE Concat(_)
Concat(ls) == IF ls = <<>> THEN <<>> ELSE Head(ls) \o Concat(Tail(ls))

\* os.path.exists(path)
Exists(path) == path \in Paths /\ fs[path].exists

\* os.replace(src, dst): dst becomes the file src named, src is gone
\* (nothing changes when both name the same file)
os_replace(files, src, dst) ==
    IF src = dst THEN files
    ELSE [files EXCEPT ![dst] = files[src], ![src] = Absent]

(* ------------------------------ inputs --------------------------------- *)

SeqsUpTo(S, n) == UNION {[1..m -> S] : m \in 0..n}

LineChars == {"a", "b"}

\* lines handed to _scrub_line directly: a body, with or without terminator
EngineLines ==
    {body \o term : body \in SeqsUpTo(LineChars, MaxLineLen), term \in {<<>>, <<NL>>}}

EnginePatterns == {<<"a">>, <<"b">>, <<".">>, <<"(">>}

\* literal replace_with strings: plain text, escapes, group references
LiteralValues ==
    { <<>>, <<"X">>, <<"a", "b">>,
      <<BS, "n">>, <<BS, BS>>, <<BS, "q">>, <<BS>>, <<BS, "1">>,
      <<BS, "g", "<", "0", ">">>, <<BS, "g", "<", "x", ">">> }

ReplaceWithValues == {None} \cup FakeKeywords \cup {Str(s) : s \in LiteralValues}

\* the files, rules and replace_with values of a run
RunLines == {<<"a", NL>>, <<"b", "a", NL>>}
RunLastLines == RunLines \cup {<<"a">>}
RunFiles ==
    {Concat(ls) : ls \in SeqsUpTo(RunLines, MaxLines)}
        \cup {Concat(ls) \o l : ls \in SeqsUpTo(RunLines, MaxLines - 1), l \in RunLastLines}
RunPatterns == {<<"a">>, <<"(">>}
RunReplaceWith ==
    {None, fake_name, fake_address,
     Str(<<"X">>), Str(<<BS, "n">>), Str(<<BS, "g", "<", "x", ">">>)}
\* on the command line, every synthetic keyword as well
CliReplaceWith == RunReplaceWith \cup FakeKeywords

(* --------------------------- sys.modules ------------------------------- *)

FakerName == <<"f", "a", "k", "e", "r">>

\* the modules loaded by lines 1-7 other than faker's, and faker's
BaseModules == {<<"s", "y", "s">>, <<"r", "e">>, <<"o", "s">>,
                <<"c", "h", "a", "r", "d", "e", "t">>}
FakerModules == {FakerName, FakerName \o <<".", "f", "a", "c", "t", "o", "r", "y">>}

\* sub in s, on strings
Contains(sub, s) ==
    \E p \in 1..(Len(s) - Len(sub) + 1) : SubSeq(s, p, p + Len(sub) - 1) = sub

\* all(["faker" in dep for dep in sys.modules])
AllModulesAreFaker(modules) == \A dep \in modules : Contains(FakerName, dep)

\* the condition of the input validation of main
RefusesFake(a, modules) ==
    IsSynthetic(a.replace_with) /\ ~AllModulesAreFaker(modules)

\* a slip: the rules list is not checked
MissingArguments_PatternsUnchecked(a) == a.input_file = "" \/ a.output_file = ""

\* the first check of scrub_log
MissingArguments(a) == a.input_file = "" \/ a.output_file = "" \/ a.patterns = <<>>

(* ------------------------------- Init ---------------------------------- *)

Args(inp, out, patterns, replace_with, inplace) ==
    [input_file |-> inp, output_file |-> out, patterns |-> patterns,
     replace_with |-> replace_with, inplace |-> inplace]

\* a direct call of _scrub_line on a constructed LogScrubber
InitEngine ==
    /\ entry = "_scrub_line"
    /\ pc = "_scrub_line"
    /\ installed = TRUE
    /\ sys_modules = BaseModules \cup FakerModules
    /\ line \in EngineLines
    /\ \E patterns \in SeqsUpTo(EnginePatterns, MaxRules), rw \in ReplaceWithValues :
          args = Args("input.log", "output.log", patterns, rw, FALSE)
    /\ fs = [p \in Paths |-> Absent]

\* the input and output names a caller may construct a LogScrubber with
ApiNames ==
    {<<"input.log", out>> : out \in Paths} \cup {<<"", "output.log">>, <<"input.log", "">>}

\* a call of scrub_log on a LogScrubber constructed by a caller
InitApi ==
    /\ entry = "scrub_log"
    /\ pc = "scrub_log"
    /\ installed = TRUE
    /\ sys_modules = BaseModules \cup FakerModules
    /\ line = <<>>
    /\ \E names \in ApiNames, patterns \in SeqsUpTo(RunPatterns, MaxRunRules),
          rw \in RunReplaceWith, inplace \in BOOLEAN :
          args = Args(names[1], names[2], patterns, rw, inplace)
    /\ \E data \in RunFiles, there \in BOOLEAN :
          fs = [p \in Paths |-> IF p = "input.log" /\ there THEN File(data) ELSE Absent]

\* the program run from the command line: argparse gives at least one pattern
InitCli ==
    /\ entry = "main"
    /\ pc = "import"
    /\ installed \in BOOLEAN
    /\ sys_modules = BaseModules
    /\ line = <<>>
    /\ \E out \in Paths, patterns \in SeqsUpTo(RunPatterns, MaxRunRules) \ {<<>>},
          rw \in CliReplaceWith, inplace \in BOOLEAN :
          args = Args("input.log", out, patterns, rw, inplace)
    /\ \E data \in RunFiles :
          fs = [p \in Paths |-> IF p = "input.log" THEN File(data) ELSE Absent]

Init ==
    /\ (InitEngine \/ InitApi \/ InitCli)
    /\ orig = fs
    /\ lines = <<>>
    /\ i = 0
    /\ log = <<>>
    /\ result = NoCall

(* ------------------------------ actions -------------------------------- *)

Logged(msg) == log' = Append(log, msg)

\* lines 1-7 with faker installed: the imports succeed, main is entered
ImportModules ==
    /\ pc = "import" /\ installed
    /\ sys_modules' = sys_modules \cup FakerModules
    /\ pc' = "main"
    /\ UNCHANGED <<entry, args, installed, fs, orig, lines, i, log, line, result>>

\* line 5 without faker installed: ImportError ends the program
ImportFails ==
    /\ pc = "import" /\ ~installed
    /\ pc' = "import_error"
    /\ UNCHANGED <<entry, args, installed, sys_modules, fs, orig, lines, i, log, line, result>>

\* main, lines 145-147: the run is refused
MainRefuses ==
    /\ pc = "main"
    /\ RefusesFake(args, sys_modules)
    /\ Logged("faker dependency is not installed")
    /\ pc' = "refused"
    /\ UNCHANGED <<entry, args, installed, sys_modules, fs, orig, lines, i, line, result>>

\* main, lines 150-151: the scrubber is constructed and scrub_log called
MainRuns ==
    /\ pc = "main"
    /\ ~RefusesFake(args, sys_modules)
    /\ pc' = "scrub_log"
    /\ UNCHANGED <<entry, args, installed, sys_modules, fs, orig, lines, i, log, line, result>>

\* scrub_log, lines 53-55
RejectMissingArguments ==
    /\ pc = "scrub_log"
    /\ MissingArguments(args)
    /\ Logged("Input file, output file, and patterns must be provided.")
    /\ pc' = "rejected"
    /\ UNCHANGED <<entry, args, installed, sys_modules, fs, orig, lines, i, line, result>>

\* scrub_log, lines 57-59
RejectInputNotFound ==
    /\ pc = "scrub_log"
    /\ ~MissingArguments(args)
    /\ ~Exists(args.input_file)
    /\ Logged("Input file not found")
    /\ pc' = "rejected"
    /\ UNCHANGED <<entry, args, installed, sys_modules, fs, orig, lines, i, line, result>>

\* scrub_log, lines 62-68: the input is read whole
ReadInput ==
    /\ pc = "scrub_log"
    /\ ~MissingArguments(args)
    /\ Exists(args.input_file)
    /\ lines' = readlines(fs[args.input_file].data, <<>>)
    /\ pc' = "open"
    /\ UNCHANGED <<entry, args, installed, sys_modules, fs, orig, i, log, line, result>>

\* scrub_log, lines 67-68 raising (the file cannot be opened or read), caught
\* at lines 81-84
ReadFails ==
    /\ pc = "scrub_log"
    /\ ~MissingArguments(args)
    /\ Exists(args.input_file)
    /\ \E e \in {"File not found", "An error occurred: OSError"} : Logged(e)
    /\ pc' = "failed"
    /\ UNCHANGED <<entry, args, installed, sys_modules, fs, orig, lines, i, line, result>>

\* scrub_log, line 70: the output is opened for writing, created or truncated
OpenOutput ==
    /\ pc = "open"
    /\ fs' = [fs EXCEPT ![args.output_file] = File(<<>>)]
    /\ i' = 0
    /\ pc' = "write"
    /\ UNCHANGED <<entry, args, installed, sys_modules, orig, lines, log, line, result>>

\* scrub_log, lines 71-73: one line is scrubbed and written
ScrubAndWrite ==
    /\ pc = "write"
    /\ i < Len(lines)
    /\ \E fakes \in FakeRuns(args.patterns, args.replace_with) :
          LET r == _scrub_line(lines[i + 1], args.patterns, args.replace_with, fakes) IN
          /\ r.exc = "none"
          /\ result' = r
          /\ fs' = [fs EXCEPT ![args.output_file].data = @ \o r.out]
          /\ log' = log \o r.logged
    /\ line' = lines[i + 1]
    /\ i' = i + 1
    /\ UNCHANGED <<pc, entry, args, installed, sys_modules, orig, lines>>

\* scrub_log, line 72: _scrub_line lets an exception through, caught at
\* lines 83-84; the output stays as far as it was written
ScrubRaises ==
    /\ pc = "write"
    /\ i < Len(lines)
    /\ \E fakes \in FakeRuns(args.patterns, args.replace_with) :
          LET r == _scrub_line(lines[i + 1], args.patterns, args.replace_with, fakes) IN
          /\ r.exc # "none"
          /\ result' = r
          /\ log' = Append(log \o r.logged, "An error occurred: " \o r.exc)
    /\ line' = lines[i + 1]
    /\ pc' = "failed"
    /\ UNCHANGED <<entry, args, installed, sys_modules, fs, orig, lines, i>>

\* scrub_log, line 73 (or the close of line 70's block) raising, caught at
\* lines 83-84
WriteFails ==
    /\ pc = "write"
    /\ Logged("An error occurred: OSError")
    /\ pc' = "failed"
    /\ UNCHANGED <<entry, args, installed, sys_modules, fs, orig, lines, i, line, result>>

\* scrub_log, line 75 with inplace unset: the run is over
ReturnWritten ==
    /\ pc = "write"
    /\ i = Len(lines)
    /\ ~args.inplace
    /\ pc' = "done"
    /\ UNCHANGED <<entry, args, installed, sys_modules, fs, orig, lines, i, log, line, result>>

\* scrub_log, lines 75-78: the output replaces the input
ReplaceInput ==
    /\ pc = "write"
    /\ i = Len(lines)
    /\ args.inplace
    /\ fs' = os_replace(fs, args.output_file, args.input_file)
    /\ Logged("File scrubbed in-place")
    /\ pc' = "done"
    /\ UNCHANGED <<entry, args, installed, sys_modules, orig, lines, i, line, result>>

\* scrub_log, lines 79-80: os.replace raises, the error is logged
ReplaceFails ==
    /\ pc = "write"
    /\ i = Len(lines)
    /\ args.inplace
    /\ Logged("Error overwriting file in-place")
    /\ pc' = "done"
    /\ UNCHANGED <<entry, args, installed, sys_modules, fs, orig, lines, i, line, result>>

\* _scrub_line called on its own and returning
ScrubLineReturns ==
    /\ pc = "_scrub_line"
    /\ \E fakes \in FakeRuns(args.patterns, args.replace_with) :
          LET r == _scrub_line(line, args.patterns, args.replace_with, fakes) IN
          /\ r.exc = "none"
          /\ result' = r
          /\ log' = log \o r.logged
    /\ pc' = "returned"
    /\ UNCHANGED <<entry, args, installed, sys_modules, fs, orig, lines, i, line>>

\* _scrub_line called on its own and letting an exception through
ScrubLineRaises ==
    /\ pc = "_scrub_line"
    /\ \E fakes \in FakeRuns(args.patterns, args.replace_with) :
          LET r == _scrub_line(line, args.patterns, args.replace_with, fakes) IN
          /\ r.exc # "none"
          /\ result' = r
          /\ log' = log \o r.logged
    /\ pc' = "raised"
    /\ UNCHANGED <<entry, args, installed, sys_modules, fs, orig, lines, i, line>>

Next ==
    \/ ImportModules
    \/ ImportFails
    \/ MainRefuses
    \/ MainRuns
    \/ RejectMissingArguments
    \/ RejectInputNotFound
    \/ ReadInput
    \/ ReadFails
    \/ OpenOutput
    \/ ScrubAndWrite
    \/ ScrubRaises
    \/ WriteFails
    \/ ReturnWritten
    \/ ReplaceInput
    \/ ReplaceFails
    \/ ScrubLineReturns
    \/ ScrubLineRaises

Spec == Init /\ [][Next]_vars

(* ------------------------------ claims --------------------------------- *)

IsLiteral(replace_with) == ~replace_with.none /\ ~IsSynthetic(replace_with)

\* the replacement arguments rule evaluation may be given under replace_with
PossibleReplacements(replace_with) ==
    IF replace_with.none THEN {<<>>}
    ELSE IF IsSynthetic(replace_with) THEN FakerValues(replace_with)
    ELSE {replace_with.s}

\* the rule is syntactically invalid or fails to evaluate
RuleFails(pattern) ==
    \E repl \in PossibleReplacements(args.replace_with) :
        re_sub(pattern, repl, <<>>).exc # "none"

Verbatim(s) == [k \in 1..Len(s) |-> Lit(s[k])]

InputNamed == args.input_file \in Paths
Replaced == \E k \in 1..Len(log) : log[k] = "File scrubbed in-place"
FakerAvailable == FakerName \in sys_modules

\* where the output of a run is found once the run is over
OutputData ==
    IF fs[args.output_file].exists THEN fs[args.output_file].data
    ELSE fs[args.input_file].data

\* the number of line terminators in a text: the lines it holds
RECURSIVE Terminators(_)
Terminators(data) ==
    IF data = <<>> THEN 0
    ELSE (IF Head(data) = NL THEN 1 ELSE 0) + Terminators(Tail(data))

\* C1: whenever some rule of the list is invalid or fails to evaluate,
\* _scrub_line returns (raises nothing), what it returns is the line exactly
\* as passed in, and the failure is logged.
C1_FailSafeOnFailingRule ==
    (result.called /\ \E k \in 1..Len(args.patterns) : RuleFails(args.patterns[k]))
        => /\ result.exc = "none"
           /\ result.out = line
           /\ result.logged # <<>>

\* C2: a run of scrub_log that got to read its input and met no file error
\* wrote every line (a failing rule does not abort it), and its output holds
\* as many terminated lines as the input did.
C2_LineCountPreserved ==
    (entry # "_scrub_line"
        /\ (pc = "done" \/ (pc = "failed" /\ result.called /\ result.exc # "none")))
        => /\ i = Len(lines)
           /\ Terminators(OutputData) = Terminators(orig[args.input_file].data)

\* C3: under a literal replace_with s and one valid rule, the line returned is
\* the line with every match replaced by the characters of s, verbatim.
C3_LiteralTextVerbatim ==
    (result.called /\ IsLiteral(args.replace_with) /\ Len(args.patterns) = 1
        /\ ~PatternError(args.patterns[1]))
        => /\ result.exc = "none"
           /\ result.out = SubFrom(args.patterns[1], Verbatim(args.replace_with.s), line, 1)

\* C4: under a synthetic replace_with and one valid rule with m matches in the
\* line, the generator was asked for m values, one per match.
C4_OneValuePerMatch ==
    (result.called /\ IsSynthetic(args.replace_with) /\ Len(args.patterns) = 1
        /\ ~PatternError(args.patterns[1]))
        => result.gen_calls = CountMatches(args.patterns[1], line, 1)

\* scrubbing with [A] alone, then the result with [B] alone
Chained(ln, A, B, replace_with) ==
    LET first == _scrub_line(ln, <<A>>, replace_with, <<>>) IN
    IF first.exc # "none" THEN first
    ELSE _scrub_line(first.out, <<B>>, replace_with, <<>>)

ChainingCase ==
    /\ result.called
    /\ ~IsSynthetic(args.replace_with)
    /\ Len(args.patterns) = 2
    /\ ~PatternError(args.patterns[1])
    /\ ~PatternError(args.patterns[2])

\* C5: for two valid rules [A, B] under deletion or a literal replace_with,
\* _scrub_line with [A, B] gives what scrubbing with [A] alone and then
\* scrubbing that result with [B] alone gives.
C5_RuleChaining ==
    ChainingCase =>
        LET chain == Chained(line, args.patterns[1], args.patterns[2], args.replace_with) IN
        /\ result.exc = chain.exc
        /\ result.out = chain.out

\* C5 witness: B matches nothing in the line passed in, and changes what A's
\* substitution gave.
C5_Witness ==
    /\ ChainingCase
    /\ result.exc = "none"
    /\ _scrub_line(line, <<args.patterns[2]>>, args.replace_with, <<>>).out = line
    /\ result.out # _scrub_line(line, <<args.patterns[1]>>, args.replace_with, <<>>).out

\* C6, as claimed: with an empty rules list _scrub_line returns the line
\* unchanged, and a run of scrub_log on an existing input ends with an output
\* holding every input line unchanged.
C6_EmptyRulesKeepEveryLine ==
    args.patterns = <<>> =>
        /\ pc \in {"returned", "raised"} => (result.exc = "none" /\ result.out = line)
        /\ (entry = "scrub_log" /\ pc \in {"rejected", "failed", "done"}
                /\ InputNamed /\ args.output_file \in Paths /\ orig[args.input_file].exists)
            => /\ fs[args.output_file].exists
               /\ fs[args.output_file].data = orig[args.input_file].data

\* C6, amended: with an empty rules list _scrub_line returns the line
\* unchanged, logging nothing and generating nothing; scrub_log refuses the
\* run: it logs that patterns must be provided and returns, no file read,
\* created or changed.
C6_EmptyRulesEngineOnly ==
    args.patterns = <<>> =>
        /\ pc \in {"returned", "raised"} => result = Outcome("none", line, <<>>, 0)
        /\ entry = "scrub_log" =>
            /\ pc \in {"scrub_log", "rejected"}
            /\ fs = orig
            /\ lines = <<>>
            /\ pc = "rejected" =>
                  log = <<"Input file, output file, and patterns must be provided.">>

\* C6 witness: scrub_log has refused a run with an empty rules list whose
\* input and output are named and whose input exists and holds lines.
C6_Witness ==
    /\ args.patterns = <<>>
    /\ entry = "scrub_log" /\ pc = "rejected"
    /\ InputNamed /\ args.output_file \in Paths
    /\ fs[args.input_file].exists /\ fs[args.input_file].data # <<>>

\* C7: a line in which no rule's pattern matches is returned identical to the
\* input, under every policy and rules list.
C7_NoMatchLineUnchanged ==
    (result.called
        /\ \A k \in 1..Len(args.patterns) :
              PatternError(args.patterns[k]) \/ CountMatches(args.patterns[k], line, 1) = 0)
        => /\ result.exc = "none"
           /\ result.out = line

\* C8: with inplace set, the file under the input name is at every point
\* either the original file or the completely written output.
C8_InPlaceAtomic ==
    (args.inplace /\ InputNamed)
        => \/ fs[args.input_file] = orig[args.input_file]
           \/ (pc \in {"write", "done"} /\ i = Len(lines) /\ fs[args.input_file].exists)

\* C9: with inplace set, the input is replaced only after every line was
\* written, and a run that failed has replaced nothing and left the content
\* under the input name as it was.
C9_ReplaceOnlyAfterCompleteWrite ==
    (args.inplace /\ InputNamed)
        => /\ Replaced => (pc = "done" /\ i = Len(lines))
           /\ pc = "failed" => (~Replaced /\ fs[args.input_file] = orig[args.input_file])

\* C10: once main is past its check, the run was refused exactly when
\* replace_with is a synthetic keyword and faker is not available.
C10_PreflightRefusesOnlyWithoutFaker ==
    (entry = "main" /\ pc \notin {"import", "import_error", "main"})
        => (pc = "refused" <=> (IsSynthetic(args.replace_with) /\ ~FakerAvailable))

====
